---------------------------- MODULE Spec2Model ----------------------------
(***************************************************************************)
(* A model of scripts/make_reports.py: the static photo-gallery report     *)
(* generator.  Strings are sequences of one-character strings over         *)
(* printable ASCII (plus TAB); the filesystem below <root> is a set of     *)
(* directories with the regular files each one holds.                      *)
(***************************************************************************)
EXTENDS Naturals, Integers, Sequences, FiniteSets, TLC

(***************************************************************************)
(* Characters and strings                                                  *)
(***************************************************************************)

\* Printable ASCII in code-point order: AsciiTable[i] is chr(31 + i).  The grave
\* accent (code 96) cannot be written in a string literal and is named instead.
AsciiTable ==
  << " ", "!", "\"", "#", "$", "%", "&", "'", "(", ")", "*", "+", ",", "-", ".", "/",
     "0", "1", "2", "3", "4", "5", "6", "7", "8", "9", ":", ";", "<", "=", ">", "?",
     "@", "A", "B", "C", "D", "E", "F", "G", "H", "I", "J", "K", "L", "M", "N", "O",
     "P", "Q", "R", "S", "T", "U", "V", "W", "X", "Y", "Z", "[", "\\", "]", "^", "_",
     "GRAVE", "a", "b", "c", "d", "e", "f", "g", "h", "i", "j", "k", "l", "m", "n", "o",
     "p", "q", "r", "s", "t", "u", "v", "w", "x", "y", "z", "{", "|", "}", "~" >>

TAB == "\t"

Char == {AsciiTable[i] : i \in 1..Len(AsciiTable)} \cup {TAB}

\* ord(c) for every character of the alphabet.
OrdMap ==
  [c \in Char |->
     IF c = TAB THEN 9
     ELSE 31 + (CHOOSE i \in 1..Len(AsciiTable) : AsciiTable[i] = c)]

Ord(c) == OrdMap[c]

Chr(n) == AsciiTable[n - 31]

\* s < t as Python compares two str values: by code point, a proper prefix first.
RECURSIVE StrLess(_, _)
StrLess(s, t) ==
  IF t = <<>> THEN FALSE
  ELSE IF s = <<>> THEN TRUE
  ELSE IF Ord(Head(s)) # Ord(Head(t)) THEN Ord(Head(s)) < Ord(Head(t))
  ELSE StrLess(Tail(s), Tail(t))

StrLeq(s, t) == s = t \/ StrLess(s, t)

\* str.lower() on ASCII: A..Z become a..z, every other character is kept.
LowerChar(c) == IF Ord(c) >= 65 /\ Ord(c) <= 90 THEN Chr(Ord(c) + 32) ELSE c

Lower(s) == [i \in 1..Len(s) |-> LowerChar(s[i])]

\* The characters str.strip() removes, within the alphabet.
IsSpace(c) == c \in {" ", TAB}

RECURSIVE LStrip(_)
LStrip(s) == IF s # <<>> /\ IsSpace(Head(s)) THEN LStrip(Tail(s)) ELSE s

RECURSIVE RStrip(_)
RStrip(s) ==
  IF s # <<>> /\ IsSpace(s[Len(s)]) THEN RStrip(SubSeq(s, 1, Len(s) - 1)) ELSE s

\* str.strip()
Strip(s) == RStrip(LStrip(s))

\* sep.join(parts)
RECURSIVE Join(_, _)
Join(sep, parts) ==
  IF parts = <<>> THEN <<>>
  ELSE IF Len(parts) = 1 THEN parts[1]
  ELSE parts[1] \o sep \o Join(sep, Tail(parts))

\* s.split(sep) for a one-character separator: always at least one piece.
RECURSIVE Split(_, _)
Split(s, sep) ==
  IF \A i \in 1..Len(s) : s[i] # sep THEN <<s>>
  ELSE LET k == CHOOSE i \in 1..Len(s) :
                  s[i] = sep /\ \A j \in 1..(i - 1) : s[j] # sep
       IN  <<SubSeq(s, 1, k - 1)>> \o Split(SubSeq(s, k + 1, Len(s)), sep)

CountChar(s, c) == Cardinality({i \in 1..Len(s) : s[i] = c})

\* A stable sort of a sequence, as list.sort and sorted() are.  less is the
\* set of the pairs <<i, j>> with seq[i] < seq[j]; element i goes to the place
\* given by the number of elements that are smaller, or equivalent and earlier.
StableSort(seq, less) ==
  LET n == Len(seq)
      rank(i) ==
        1 + Cardinality({j \in 1..n :
                           \/ <<j, i>> \in less
                           \/ (<<i, j>> \notin less /\ j < i)})
  IN  [k \in 1..n |-> seq[CHOOSE i \in 1..n : rank(i) = k]]

\* The pairs of positions of seq whose strings are in ascending order.
StrOrder(seq) ==
  {ij \in (1..Len(seq)) \X (1..Len(seq)) : StrLess(seq[ij[1]], seq[ij[2]])}

\* The elements of a sequence.
Range(seq) == {seq[i] : i \in 1..Len(seq)}

\* Some enumeration of a finite set (an iteration order the sort is applied to).
RECURSIVE SetToSeq(_)
SetToSeq(S) ==
  IF S = {} THEN <<>>
  ELSE LET x == CHOOSE y \in S : TRUE IN <<x>> \o SetToSeq(S \ {x})

(***************************************************************************)
(* The pure functions of make_reports.py                                   *)
(***************************************************************************)

\* IMG_EXTS with ".html" taken for an image extension.
IMG_EXTS_WithHtml ==
  { <<".", "p", "n", "g">>, <<".", "j", "p", "g">>, <<".", "j", "p", "e", "g">>,
    <<".", "w", "e", "b", "p">>, <<".", "g", "i", "f">>, <<".", "h", "t", "m", "l">> }

IMG_EXTS ==
  { <<".", "p", "n", "g">>, <<".", "j", "p", "g">>, <<".", "j", "p", "e", "g">>,
    <<".", "w", "e", "b", "p">>, <<".", "g", "i", "f">> }

\* str.rfind("."): the last index of ".", 0 when there is none (1-based).
RFindDot(name) ==
  IF \A i \in 1..Len(name) : name[i] # "." THEN 0
  ELSE CHOOSE i \in 1..Len(name) :
         name[i] = "." /\ \A j \in (i + 1)..Len(name) : name[j] # "."

\* Path.suffix: the text from the last dot on, unless that dot leads the name or
\* ends it.
suffix(name) ==
  LET i == RFindDot(name)
  IN  IF 1 < i /\ i < Len(name) THEN SubSeq(name, i, Len(name)) ELSE <<>>

\* The filter of list_images without its extension test.
IsImageEntryAnyFile(e) == e.is_file

\* p.is_file() and p.suffix.lower() in IMG_EXTS, for a directory entry
\* [name, is_file].
IsImageEntry(e) == e.is_file /\ Lower(suffix(e.name)) \in IMG_EXTS

\* list_images(folder): the names of the folder's direct children that are image
\* files, sorted ascending.  children is the set of the folder's entries.
list_images(children) ==
  LET found == SetToSeq({e.name : e \in {c \in children : IsImageEntry(c)}})
  IN  StableSort(found, StrOrder(found))

\* quote with safe="": "/" is encoded like any other reserved character.
QuoteSafeNoSlash(c) ==
  \/ (Ord(c) >= 65 /\ Ord(c) <= 90)
  \/ (Ord(c) >= 97 /\ Ord(c) <= 122)
  \/ (Ord(c) >= 48 /\ Ord(c) <= 57)
  \/ c \in {"_", ".", "-", "~"}

\* urllib.parse.quote's always-safe characters, plus its default safe="/".
QuoteSafe(c) ==
  \/ (Ord(c) >= 65 /\ Ord(c) <= 90)
  \/ (Ord(c) >= 97 /\ Ord(c) <= 122)
  \/ (Ord(c) >= 48 /\ Ord(c) <= 57)
  \/ c \in {"_", ".", "-", "~"}
  \/ c = "/"

HexDigits ==
  << "0", "1", "2", "3", "4", "5", "6", "7", "8", "9", "A", "B", "C", "D", "E", "F" >>

QuoteChar(c) ==
  IF QuoteSafe(c) THEN <<c>>
  ELSE << "%", HexDigits[(Ord(c) \div 16) + 1], HexDigits[(Ord(c) % 16) + 1] >>

\* urllib.parse.quote(p)
RECURSIVE quote(_)
quote(p) == IF p = <<>> THEN <<>> ELSE QuoteChar(Head(p)) \o quote(Tail(p))

\* url_path(*parts)
url_path(parts) == Join(<<"/">>, [i \in 1..Len(parts) |-> quote(parts[i])])

EscapeChar(c) ==
  CASE c = "&" -> <<"&", "a", "m", "p", ";">>
    [] c = "<" -> <<"&", "l", "t", ";">>
    [] c = ">" -> <<"&", "g", "t", ";">>
    [] c = "\"" -> <<"&", "q", "u", "o", "t", ";">>
    [] c = "'" -> <<"&", "#", "x", "2", "7", ";">>
    [] OTHER -> <<c>>

\* html.escape(s), quote=True
RECURSIVE html_escape(_)
html_escape(s) == IF s = <<>> THEN <<>> ELSE EscapeChar(Head(s)) \o html_escape(Tail(s))

\* A field of a csv.DictReader row: None (a short row, or a column the header
\* lacks) or a string.
None == [none |-> TRUE]

Some(v) == [none |-> FALSE, val |-> v]

\* (row.get(col) or "")
OrEmpty(field) == IF field.none THEN <<>> ELSE field.val

\* caps.setdefault(fn, cap): the first row of a filename wins.
PutIfAbsent(caps, fn, cap) ==
  [k \in (DOMAIN caps) \cup {fn} |-> IF k \in DOMAIN caps THEN caps[k] ELSE cap]

\* caps[fn] = cap
Put(caps, fn, cap) ==
  [k \in (DOMAIN caps) \cup {fn} |-> IF k = fn THEN cap ELSE caps[k]]

\* A lookup that ignores letter case.
GetIgnoreCase(caps, name) ==
  IF \E k \in DOMAIN caps : Lower(k) = Lower(name)
  THEN caps[CHOOSE k \in DOMAIN caps : Lower(k) = Lower(name)]
  ELSE <<>>

\* caps.get(name, "")
Get(caps, name) == IF name \in DOMAIN caps THEN caps[name] ELSE <<>>

\* The loop of read_captions over the rows of the reader, in order.
RECURSIVE ReadRows(_, _)
ReadRows(rows, caps) ==
  IF rows = <<>> THEN caps
  ELSE LET fn  == Strip(OrEmpty(Head(rows).filename))
           cap == Strip(OrEmpty(Head(rows).caption))
       IN  ReadRows(Tail(rows), IF fn # <<>> THEN Put(caps, fn, cap) ELSE caps)

\* captions_csv.open(...): IsADirectoryError when the path that exists is a
\* directory.  csv is [exists, is_dir, rows].
OpenRaises(csv) == csv.exists /\ csv.is_dir

\* read_captions(captions_csv), when it returns: rows are the data rows as
\* csv.DictReader yields them.
read_captions(csv) == IF ~csv.exists THEN <<>> ELSE ReadRows(csv.rows, <<>>)

\* One <figure class="card"> of a report.
Card(img, caps) ==
  [ href    |-> url_path(<<img>>),
    src     |-> url_path(<<img>>),
    alt     |-> html_escape(img),
    caption |-> html_escape(Get(caps, img)) ]

\* The page build_report writes for a folder that has images: its title, the
\* image count of the header, and the cards in list_images order.
ReportPage(name, children, csv) ==
  LET images == list_images(children)
      caps   == read_captions(csv)
  IN  [ title |-> html_escape(name),
        count |-> Len(images),
        cards |-> [i \in 1..Len(images) |-> Card(images[i], caps)] ]

\* A directory entry as list_images and the file operations see it.
File(name) == [name |-> name, is_file |-> TRUE]

Subdir(name) == [name |-> name, is_file |-> FALSE]

REPORT_HTML == <<"r", "e", "p", "o", "r", "t", ".", "h", "t", "m", "l">>

CAPTIONS_CSV == <<"c", "a", "p", "t", "i", "o", "n", "s", ".", "c", "s", "v">>

\* build_report(folder): whether it raises, and what it writes to
\* folder/report.html: <<>> when there is no image (the early return) or when it
\* raises, <<page>> otherwise.  It raises IsADirectoryError when captions.csv,
\* or report.html itself, is a directory.
build_report(name, children, csv) ==
  IF list_images(children) = <<>> THEN [raised |-> FALSE, write |-> <<>>]
  ELSE IF OpenRaises(csv) \/ Subdir(REPORT_HTML) \in children
       THEN [raised |-> TRUE, write |-> <<>>]
       ELSE [raised |-> FALSE, write |-> <<ReportPage(name, children, csv)>>]

\* p < q as pathlib compares two paths: part by part.
RECURSIVE PathLess(_, _)
PathLess(p, q) ==
  IF q = <<>> THEN FALSE
  ELSE IF p = <<>> THEN TRUE
  ELSE IF Head(p) # Head(q) THEN StrLess(Head(p), Head(q))
  ELSE PathLess(Tail(p), Tail(q))

\* p.relative_to(outputs_dir).as_posix()
rel_from_outputs(p) == IF p = <<>> THEN <<".">> ELSE Join(<<"/">>, p)

\* The sort key without .lower().
ItemLessCaseSensitive(x, y) == StrLess(x.rel, y.rel)

\* items.sort(key=lambda x: x[0].lower()): the order of the keys.
ItemLess(x, y) == StrLess(Lower(x.rel), Lower(y.rel))

\* The (rel, report_rel, img_count) tuples of build_index_pages, sorted on
\* rel.lower().  count[folder] is len(list_images(folder)).
IndexItems(folders, count) ==
  LET items == [i \in 1..Len(folders) |->
                  [ rel        |-> rel_from_outputs(folders[i]),
                    report_rel |-> rel_from_outputs(folders[i]) \o <<"/">> \o REPORT_HTML,
                    img_count  |-> count[folders[i]] ]]
  IN  StableSort(items,
                 {ij \in (1..Len(items)) \X (1..Len(items)) :
                    ItemLess(items[ij[1]], items[ij[2]])})

\* The "no reports found" <li>.
Placeholder == [kind |-> "placeholder"]

\* make_html(prefix_to_outputs): the <li> elements of the page's list.
make_html(items, prefix_to_outputs) ==
  LET lis == [i \in 1..Len(items) |->
                [ kind      |-> "report",
                  rel       |-> items[i].rel,
                  href      |-> url_path(<<prefix_to_outputs>>
                                         \o Split(items[i].report_rel, "/")),
                  label     |-> html_escape(items[i].rel),
                  img_count |-> items[i].img_count ]]
  IN  IF lis # <<>> THEN lis ELSE <<Placeholder>>

SITE_PREFIX == <<".", ".", "/", "o", "u", "t", "p", "u", "t", "s">>

ROOT_PREFIX == <<"o", "u", "t", "p", "u", "t", "s">>

\* build_index_pages(root, report_folders): the site directory made, and the
\* two pages written.  count[folder] is len(list_images(folder)).
build_index_pages(folders, count) ==
  LET items == IndexItems(folders, count)
  IN  [ site_dir   |-> TRUE,
        site_index |-> <<make_html(items, SITE_PREFIX)>>,
        root_index |-> <<make_html(items, ROOT_PREFIX)>> ]

(***************************************************************************)
(* Bounds and input universes                                              *)
(***************************************************************************)

\* Directories below outputs/ in an initial filesystem.
MaxDirs == 2

\* Runs of main on the same filesystem.
MaxRuns == 2

\* Data rows of a captions.csv handed to read_captions.
MaxRows == 2

\* Segments handed to url_path.
MaxParts == 3

\* Folders handed to build_index_pages.
MaxFolders == 3

BoundedSeq(U, n) == UNION {[1..k -> U] : k \in 0..n}

Dir_a == <<"a">>

Dir_A == <<"A">>

Dir_RD == <<"R", "&", "D">>

DirNames == {Dir_a, Dir_RD}

X_PNG == <<"x", ".", "p", "n", "g">>

A_GIF == <<"a", ".", "g", "i", "f">>

BC_JPG == <<"b", " ", "c", ".", "J", "P", "G">>

N_TXT == <<"n", ".", "t", "x", "t">>

A_PNG == <<"a", ".", "p", "n", "g">>

A_PNG_UPPER == <<"a", ".", "P", "N", "G">>

DOT_PNG == <<".", "p", "n", "g">>

D_GIF == <<"d", ".", "g", "i", "f">>

\* A report.html left by something other than this program.
StalePage == [title |-> <<"o", "l", "d">>, count |-> 0, cards |-> <<>>]

\* What a directory of an initial filesystem may hold: its regular files, the
\* data rows of its captions.csv, its report.html (<<>>: none), and empty
\* subdirectories of its own (a directory called captions.csv).
FileMenus ==
  { [ files  |-> {N_TXT, REPORT_HTML}, rows |-> <<>>, report |-> <<StalePage>>,
      subdirs |-> {} ],
    [ files  |-> {X_PNG, REPORT_HTML}, rows |-> <<>>, report |-> <<StalePage>>,
      subdirs |-> {} ],
    [ files  |-> {BC_JPG, A_GIF, CAPTIONS_CSV},
      rows   |-> << [filename |-> Some(<<" ">> \o A_GIF \o <<" ">>),
                     caption  |-> Some(<<"h", "i", "<">>)],
                    [filename |-> Some(Lower(BC_JPG)), caption |-> Some(<<"n", "o">>)] >>,
      report |-> <<>>, subdirs |-> {} ],
    [ files  |-> {X_PNG}, rows |-> <<>>, report |-> <<>>, subdirs |-> {CAPTIONS_CSV} ] }

\* The directories that can be added to the tree T below outputs/.
Addable(T) == {p \o <<n>> : p \in T \cup {<<>>}, n \in DirNames} \ T

\* The directory trees below outputs/ with at most k directories.
RECURSIVE Trees(_)
Trees(k) ==
  IF k = 0 THEN {{}}
  ELSE LET prev == Trees(k - 1)
       IN  prev \cup UNION {{T \cup {p} : p \in Addable(T)} : T \in prev}

(***************************************************************************)
(* State                                                                   *)
(***************************************************************************)

VARIABLES
  dirs,            \* the directories at or below <root>/outputs, as paths
                   \* relative to it (<<>> is outputs itself; {} when missing)
  files,           \* files[d]: the names of the regular files directly in d
  captions,        \* captions[d]: the data rows of d/captions.csv
  reports,         \* reports[d]: the content of d/report.html (<<>>: no file)
  site_dir,        \* whether <root>/site exists
  site_index,      \* the content of <root>/site/index.html (<<>>: no file)
  root_index,      \* the content of <root>/index.html (<<>>: no file)
  pc,              \* where main is
  report_folders,  \* main's report_folders
  next,            \* the position of main's loop in report_folders
  runs,            \* how many times main has been started
  before,          \* what the filesystem held when the current run started
  log,             \* the filesystem operations of the current run, in order
  call,            \* a direct call of one function: [fn, arg]
  ret,             \* its result (<<>>: not returned)
  raised           \* whether the call raised an exception

fsvars == <<dirs, files, captions, reports, site_dir, site_index, root_index>>

mainvars == <<pc, report_folders, next, runs, before, log>>

callvars == <<call, ret, raised>>

vars == <<fsvars, mainvars, callvars>>

\* folder.iterdir(): the regular files of d and its subdirectories.
Children(d) ==
  {[name |-> f, is_file |-> TRUE] : f \in files[d]}
    \cup {[name |-> q[Len(q)], is_file |-> FALSE] :
            q \in {p \in dirs : Len(p) = Len(d) + 1 /\ SubSeq(p, 1, Len(d)) = d}}

\* folder / "captions.csv"
CaptionsCsv(d) ==
  [ exists |-> CAPTIONS_CSV \in files[d] \/ (d \o <<CAPTIONS_CSV>>) \in dirs,
    is_dir |-> (d \o <<CAPTIONS_CSV>>) \in dirs,
    rows   |-> captions[d] ]

\* A count of every file of the folder, image or not.
ImageCountAllFiles(d) == Cardinality(files[d])

\* len(list_images(folder))
ImageCount(d) == Len(list_images(Children(d)))

\* outputs_dir.rglob("*"): every file and directory below outputs_dir, not
\* outputs_dir itself.
rglob ==
  (dirs \ {<<>>}) \cup UNION {{d \o <<f>> : f \in files[d]} : d \in dirs}

\* find_report_folders(outputs_dir)
find_report_folders ==
  LET found == SetToSeq(rglob)
      walk  == StableSort(found,
                          {ij \in (1..Len(found)) \X (1..Len(found)) :
                             PathLess(found[ij[1]], found[ij[2]])})
  IN  SelectSeq(walk, LAMBDA d : d \in dirs /\ list_images(Children(d)) # <<>>)

\* main without its check of outputs/.
OutputsExistsAlways == TRUE

\* outputs_dir.exists()
OutputsExists == <<>> \in dirs

Snapshot ==
  [ files |-> files, reports |-> reports, site_dir |-> site_dir,
    site_index |-> site_index, root_index |-> root_index,
    report_folders |-> report_folders ]

NoCall == [fn |-> "none"]

(***************************************************************************)
(* main, step by step                                                      *)
(***************************************************************************)

InitMain ==
  /\ pc = "idle"
  /\ report_folders = <<>>
  /\ next = 1
  /\ runs = 0
  /\ log = <<>>
  /\ site_dir = FALSE
  /\ site_index = <<>>
  /\ root_index = <<>>

\* The filesystems main is started on: outputs/ missing, or a tree of at most
\* MaxDirs directories below it, each directory holding one of FileMenus.
Init ==
  /\ InitMain
  /\ \/ /\ dirs = {}
        /\ files = <<>>
        /\ captions = <<>>
        /\ reports = <<>>
     \/ \E T \in Trees(MaxDirs) :
          \E menu \in [T \cup {<<>>} -> FileMenus] :
            LET tree  == T \cup {<<>>}
                extra == UNION {{d \o <<n>> : n \in menu[d].subdirs} : d \in tree}
            IN  /\ dirs = tree \cup extra
                /\ files = [d \in tree \cup extra |->
                              IF d \in tree THEN menu[d].files ELSE {}]
                /\ captions = [d \in tree \cup extra |->
                                 IF d \in tree THEN menu[d].rows ELSE <<>>]
                /\ reports = [d \in tree \cup extra |->
                                IF d \in tree THEN menu[d].report ELSE <<>>]
  /\ before = Snapshot
  /\ call = NoCall
  /\ ret = <<>>
  /\ raised = FALSE

Startable == pc \in {"idle", "done", "failed", "crashed"} /\ runs < MaxRuns

\* main, lines 187-190: outputs/ is missing, SystemExit.
MainAbort ==
  /\ Startable
  /\ ~OutputsExists
  /\ runs' = runs + 1
  /\ before' = Snapshot
  /\ log' = <<>>
  /\ pc' = "failed"
  /\ UNCHANGED <<fsvars, report_folders, next, callvars>>

\* main, lines 187-190: outputs/ exists.
MainStart ==
  /\ Startable
  /\ OutputsExists
  /\ runs' = runs + 1
  /\ before' = Snapshot
  /\ log' = <<>>
  /\ pc' = "discover"
  /\ UNCHANGED <<fsvars, report_folders, next, callvars>>

\* main, line 192: report_folders = find_report_folders(outputs_dir)
Discover ==
  /\ pc = "discover"
  /\ report_folders' = find_report_folders
  /\ next' = 1
  /\ log' = Append(log, [op |-> "discovered", dir |-> <<>>])
  /\ pc' = "reports"
  /\ UNCHANGED <<fsvars, runs, before, callvars>>

\* The index is built without the loop having run.
LoopMoreNever == FALSE

\* for folder in report_folders: the loop has a folder left.
LoopMore == next <= Len(report_folders)

\* folder.name
FolderName(d) == IF d = <<>> THEN ROOT_PREFIX ELSE d[Len(d)]

\* main, lines 195-196: build_report(folder) for the next folder.  An exception
\* of build_report is not caught: it ends main.
BuildReport ==
  /\ pc = "reports"
  /\ LoopMore
  /\ LET d   == report_folders[next]
         res == build_report(FolderName(d), Children(d), CaptionsCsv(d))
     IN  IF res.raised
         THEN /\ pc' = "crashed"
              /\ log' = Append(log, [op |-> "report_failed", dir |-> d])
              /\ UNCHANGED <<reports, files, next>>
         ELSE /\ IF res.write = <<>>
                 THEN /\ log' = Append(log, [op |-> "report_skipped", dir |-> d])
                      /\ UNCHANGED <<reports, files>>
                 ELSE /\ reports' = [reports EXCEPT ![d] = res.write]
                      /\ files' = [files EXCEPT ![d] = @ \cup {REPORT_HTML}]
                      /\ log' = Append(log, [op |-> "report_written", dir |-> d])
              /\ next' = next + 1
              /\ pc' = pc
  /\ UNCHANGED <<dirs, captions, site_dir, site_index, root_index,
                 report_folders, runs, before, callvars>>

\* main, line 199: build_index_pages(root, report_folders), once the loop is over.
BuildIndexPages ==
  /\ pc = "reports"
  /\ ~LoopMore
  /\ LET written == build_index_pages(report_folders,
                                      [d \in Range(report_folders) |-> ImageCount(d)])
     IN  /\ site_dir' = written.site_dir
         /\ site_index' = written.site_index
         /\ root_index' = written.root_index
  /\ log' = log \o << [op |-> "site_dir_made", dir |-> <<>>],
                      [op |-> "site_index_written", dir |-> <<>>],
                      [op |-> "root_index_written", dir |-> <<>>] >>
  /\ pc' = "done"
  /\ UNCHANGED <<dirs, files, captions, reports, report_folders, next, runs,
                 before, callvars>>

Next == MainAbort \/ MainStart \/ Discover \/ BuildReport \/ BuildIndexPages

Spec == Init /\ [][Next]_vars

(***************************************************************************)
(* Direct calls of the functions                                           *)
(***************************************************************************)

UrlSegments ==
  { <<"a">>, <<"a", " ", "b">>, <<"x", "/", "y">>, <<"r", "&", "d">>, SITE_PREFIX, <<>> }

UrlCalls == {[fn |-> "url_path", arg |-> parts] : parts \in BoundedSeq(UrlSegments, MaxParts)}

RowFilenames ==
  { None, Some(<<" ">> \o A_PNG), Some(A_PNG_UPPER), Some(<<" ", TAB>>) }

RowCaptions == { None, Some(<<"h", "i", " ">>), Some(<<"<", "b", ">">>) }

Rows == [filename : RowFilenames, caption : RowCaptions]

\* No captions.csv, a directory of that name, or a file with some data rows.
CsvFiles ==
  {[exists |-> FALSE, is_dir |-> FALSE, rows |-> <<>>],
   [exists |-> TRUE, is_dir |-> TRUE, rows |-> <<>>]}
    \cup {[exists |-> TRUE, is_dir |-> FALSE, rows |-> rows] :
            rows \in BoundedSeq(Rows, MaxRows)}

CaptionCalls == {[fn |-> "read_captions", arg |-> csv] : csv \in CsvFiles}

FolderMenus ==
  { {},
    {File(N_TXT), File(DOT_PNG), Subdir(D_GIF)},
    {File(A_PNG)},
    {File(A_PNG_UPPER), File(A_PNG), File(BC_JPG), File(N_TXT)},
    {File(A_PNG_UPPER), Subdir(D_GIF)},
    {File(A_PNG), Subdir(REPORT_HTML)} }

ReportCalls ==
  {[fn |-> "build_report", arg |-> [name |-> Dir_RD, children |-> ch, csv |-> csv]] :
     ch \in FolderMenus, csv \in CsvFiles}

IndexPaths ==
  { <<Dir_a>>, <<Dir_A>>, <<Dir_RD>>, <<Dir_a, Dir_RD>>, <<Dir_RD, Dir_a>> }

IndexChildren ==
  [p \in IndexPaths |->
     IF Len(p) = 1 THEN {File(X_PNG)} ELSE {File(A_GIF), File(BC_JPG), File(N_TXT)}]

IndexCalls ==
  {[fn |-> "build_index_pages", arg |-> [folders |-> fs, children |-> IndexChildren]] :
     fs \in BoundedSeq(IndexPaths, MaxFolders)}

\* One function is called on one input of its universe; main is not running.
FnInit ==
  /\ InitMain
  /\ dirs = {}
  /\ files = <<>>
  /\ captions = <<>>
  /\ reports = <<>>
  /\ before = Snapshot
  /\ call \in UrlCalls \cup CaptionCalls \cup ReportCalls \cup IndexCalls
  /\ ret = <<>>
  /\ raised = FALSE

CallUrlPath ==
  /\ call.fn = "url_path"
  /\ ret = <<>>
  /\ ret' = <<url_path(call.arg)>>
  /\ UNCHANGED <<fsvars, mainvars, call, raised>>

CallReadCaptions ==
  /\ call.fn = "read_captions"
  /\ ret = <<>>
  /\ ~raised
  /\ IF OpenRaises(call.arg)
     THEN raised' = TRUE /\ ret' = ret
     ELSE raised' = FALSE /\ ret' = <<read_captions(call.arg)>>
  /\ UNCHANGED <<fsvars, mainvars, call>>

CallBuildReport ==
  /\ call.fn = "build_report"
  /\ ret = <<>>
  /\ ~raised
  /\ LET res == build_report(call.arg.name, call.arg.children, call.arg.csv)
     IN  /\ raised' = res.raised
         /\ ret' = IF res.raised THEN ret ELSE <<res.write>>
  /\ UNCHANGED <<fsvars, mainvars, call>>

CallBuildIndexPages ==
  /\ call.fn = "build_index_pages"
  /\ ret = <<>>
  /\ ret' = <<build_index_pages(call.arg.folders,
                                [d \in DOMAIN call.arg.children |->
                                   Len(list_images(call.arg.children[d]))])>>
  /\ UNCHANGED <<fsvars, mainvars, call, raised>>

FnNext == CallUrlPath \/ CallReadCaptions \/ CallBuildReport \/ CallBuildIndexPages

FnSpec == FnInit /\ [][FnNext]_vars

(***************************************************************************)
(* Notions the properties are stated with                                  *)
(***************************************************************************)

ExtNames ==
  { <<"p", "n", "g">>, <<"j", "p", "g">>, <<"j", "p", "e", "g">>,
    <<"w", "e", "b", "p">>, <<"g", "i", "f">> }

\* name is longer than "." \o ext and ends with it, letter case aside.
EndsWithExt(name, ext) ==
  /\ Len(name) > Len(ext) + 1
  /\ name[Len(name) - Len(ext)] = "."
  /\ \A i \in 1..Len(ext) : LowerChar(name[Len(name) - Len(ext) + i]) = ext[i]

\* A file name whose extension is one of png/jpg/jpeg/webp/gif.
IsImageName(name) == \E ext \in ExtNames : EndsWithExt(name, ext)

\* The image files directly in directory d of the filesystem.
ImagesIn(d) == {f \in files[d] : IsImageName(f)}

\* The directories into which the current run wrote a report.html.
Written == {log[i].dir : i \in {j \in 1..Len(log) : log[j].op = "report_written"}}

\* The folders for which the current run has called build_report.
BuildOps == {"report_written", "report_skipped", "report_failed"}

Built == {log[i].dir : i \in {j \in 1..Len(log) : log[j].op \in BuildOps}}

IndexOps == {"site_dir_made", "site_index_written", "root_index_written"}

\* The <li> elements of an index file that link a report.
Entries(index) ==
  IF index = <<>> THEN <<>> ELSE SelectSeq(index[1], LAMBDA li : li.kind = "report")

HasPlaceholder(index) ==
  index # <<>> /\ \E i \in 1..Len(index[1]) : index[1][i].kind = "placeholder"

EntryRels(index) == {Entries(index)[i].rel : i \in 1..Len(Entries(index))}

Discovered == pc \in {"reports", "done", "crashed"}

(***************************************************************************)
(* C1.  find_report_folders returns exactly the directories at or below    *)
(* outputs/, outputs/ itself included, that directly hold an image file.   *)
(* The original claim: it fails for outputs/ itself, which rglob("*")      *)
(* never yields.                                                           *)
(***************************************************************************)
C1_RootIncluded ==
  Discovered => Range(report_folders) = {d \in dirs : ImagesIn(d) # {}}

\* The part of C1 that the code meets: the directories strictly below outputs/.
C1_BelowRoot ==
  Discovered => Range(report_folders) = {d \in dirs \ {<<>>} : ImagesIn(d) # {}}

(***************************************************************************)
(* C2.  A folder that directly holds no image file gets no report.html     *)
(* from this run (build_report on it writes nothing), is not in the        *)
(* find_report_folders result and is no entry of either index page.        *)
(***************************************************************************)
C2_NoImagesNoReport ==
  \A d \in dirs :
    ImagesIn(d) = {} =>
      /\ build_report(FolderName(d), Children(d), CaptionsCsv(d)).write = <<>>
      /\ d \notin Written
      /\ reports[d] = before.reports[d]
      /\ REPORT_HTML \in files[d] <=> REPORT_HTML \in before.files[d]
      /\ Discovered => d \notin Range(report_folders)
      /\ rel_from_outputs(d) \notin EntryRels(site_index) \cup EntryRels(root_index)

C2_Witness ==
  /\ pc = "done"
  /\ Written # {}
  /\ \E d \in dirs \ {<<>>} : ImagesIn(d) = {} /\ reports[d] = <<StalePage>>

(***************************************************************************)
(* C3.  When outputs/ does not exist as main starts, the run fails and     *)
(* writes nothing: no report.html, no index page, no site directory.       *)
(***************************************************************************)
C3_MissingOutputsAborts ==
  (<<>> \notin dirs /\ runs >= 1) =>
    /\ pc = "failed"
    /\ log = <<>>
    /\ reports = before.reports /\ files = before.files
    /\ site_dir = FALSE /\ site_index = <<>> /\ root_index = <<>>

C3_Witness == pc = "failed" /\ runs >= 1 /\ <<>> \notin dirs

(***************************************************************************)
(* C4.  The phases of a run are ordered: no report.html is written before  *)
(* discovery has completed, and the site directory and the index pages     *)
(* are made only after build_report has run for every discovered folder.   *)
(***************************************************************************)
C4_PhasesOrdered ==
  /\ ~Discovered =>
       /\ \A i \in 1..Len(log) : log[i].op = "discovered"
       /\ reports = before.reports /\ files = before.files
       /\ site_dir = before.site_dir /\ site_index = before.site_index
       /\ root_index = before.root_index
  /\ \A i \in 1..Len(log) :
       log[i].op \in BuildOps => \E j \in 1..(i - 1) : log[j].op = "discovered"
  /\ \A i \in 1..Len(log) :
       log[i].op \in IndexOps =>
         \A k \in 1..Len(report_folders) :
           \E j \in 1..(i - 1) :
             /\ log[j].op \in {"report_written", "report_skipped"}
             /\ log[j].dir = report_folders[k]
  /\ pc \in {"reports", "crashed"} =>
       /\ \A i \in 1..Len(log) : log[i].op \notin IndexOps
       /\ site_dir = before.site_dir /\ site_index = before.site_index
       /\ root_index = before.root_index
       /\ Built = {report_folders[k] :
                     k \in 1..(IF pc = "crashed" THEN next ELSE next - 1)}

C4_Witness ==
  /\ pc = "done"
  /\ Len(report_folders) >= 2
  /\ Cardinality(Written) >= 2
  /\ site_index # <<>>

(***************************************************************************)
(* C5.  A second run on the filesystem the first run left discovers the    *)
(* same folders and writes the same report.html files and index pages:     *)
(* the files a run writes do not change what the next run finds or counts. *)
(***************************************************************************)
C5_RerunIdempotent ==
  (pc \in {"done", "crashed"} /\ runs >= 2) =>
    /\ report_folders = before.report_folders
    /\ reports = before.reports
    /\ files = before.files
    /\ site_index = before.site_index
    /\ root_index = before.root_index

C5_Witness ==
  /\ pc = "done"
  /\ runs = 2
  /\ Cardinality(Written) >= 2
  /\ \E d \in Written : CAPTIONS_CSV \in files[d]

(***************************************************************************)
(* C9.  After a complete run both index pages list the same entries in     *)
(* the same order, one per folder the run wrote a report.html for, each    *)
(* with the number of cards of that report; the "no reports found" item    *)
(* is on both pages exactly when the run wrote no report.html.             *)
(***************************************************************************)
EntryView(li) == [rel |-> li.rel, label |-> li.label, img_count |-> li.img_count]

C9_IndexMatchesReports ==
  pc = "done" =>
    LET site == Entries(site_index)
        root == Entries(root_index)
    IN  /\ site_index # <<>> /\ root_index # <<>>
        /\ Len(site) = Len(root)
        /\ \A i \in 1..Len(site) : EntryView(site[i]) = EntryView(root[i])
        /\ Len(site) = Cardinality(Written)
        /\ EntryRels(site_index) = {rel_from_outputs(d) : d \in Written}
        /\ \A i \in 1..Len(site) :
             \A d \in Written :
               site[i].rel = rel_from_outputs(d) =>
                 site[i].img_count = Len(reports[d][1].cards)
        /\ HasPlaceholder(site_index) <=> Written = {}
        /\ HasPlaceholder(root_index) <=> Written = {}

C9_Witness ==
  /\ pc = "done"
  /\ Cardinality(Written) >= 2
  /\ \E d \in Written : Len(reports[d][1].cards) = 2
  /\ \E d \in Written : Len(reports[d][1].cards) = 1

(***************************************************************************)
(* C6.  Whatever the order of the folders handed to build_index_pages,     *)
(* the entries of each index page are in ascending order of their          *)
(* relative path compared case-insensitively, and are a permutation of     *)
(* the folders handed in.                                                  *)
(***************************************************************************)
Returned(fn) == call.fn = fn /\ ret # <<>>

\* The call has ended: it returned or it raised.
Ended(fn) == call.fn = fn /\ (ret # <<>> \/ raised)

SortedByLowerRel(entries) ==
  \A i \in 1..(Len(entries) - 1) :
    StrLeq(Lower(entries[i].rel), Lower(entries[i + 1].rel))

\* Every folder occurs among the entries as often as in the input.
PermutationOf(entries, folders) ==
  /\ Len(entries) = Len(folders)
  /\ \A p \in Range(folders) :
       Cardinality({i \in 1..Len(entries) : entries[i].rel = rel_from_outputs(p)})
         = Cardinality({i \in 1..Len(folders) : folders[i] = p})

C6_IndexSorted ==
  Returned("build_index_pages") =>
    \A index \in {ret[1].site_index, ret[1].root_index} :
      /\ SortedByLowerRel(Entries(index))
      /\ PermutationOf(Entries(index), call.arg.folders)

C6_Witness ==
  /\ Returned("build_index_pages")
  /\ call.arg.folders = << <<Dir_RD>>, <<Dir_a, Dir_RD>>, <<Dir_A>> >>
  /\ Len(Entries(ret[1].site_index)) = 3

(***************************************************************************)
(* C7.  read_captions returns the table of the rows processed in order:    *)
(* both fields trimmed, a missing field read as the empty string, a row    *)
(* with an empty trimmed filename ignored, and for every other filename    *)
(* the caption of the last row that carries it; no captions.csv gives the  *)
(* empty table.                                                            *)
(***************************************************************************)
FieldText(field) == IF field = None THEN <<>> ELSE field.val

\* t is s without its leading and trailing whitespace.
IsTrimOf(t, s) ==
  \E i \in 1..(Len(s) + 1) :
    \E j \in 0..Len(s) :
      /\ t = SubSeq(s, i, j)
      /\ \A k \in 1..(i - 1) : IsSpace(s[k])
      /\ \A k \in (j + 1)..Len(s) : IsSpace(s[k])
      /\ (t # <<>> => ~IsSpace(s[i]) /\ ~IsSpace(s[j]))
      /\ (t = <<>> => i = Len(s) + 1 /\ j = Len(s))

Substrings(s) == {SubSeq(s, i, j) : i \in 1..(Len(s) + 1), j \in 0..Len(s)}

Trimmed(s) == CHOOSE t \in Substrings(s) : IsTrimOf(t, s)

\* The rows whose trimmed filename is name.
RowsFor(rows, name) ==
  {i \in 1..Len(rows) : IsTrimOf(name, FieldText(rows[i].filename))}

\* The largest element of a non-empty set of numbers.
Last(I) == CHOOSE i \in I : \A j \in I : j <= i

\* table is what the rows say: its keys are the non-empty trimmed filenames, and
\* each key has the trimmed caption of the last row carrying it.
TableOfRows(table, rows) ==
  /\ DOMAIN table = {Trimmed(FieldText(rows[i].filename)) : i \in 1..Len(rows)} \ {<<>>}
  /\ \A name \in DOMAIN table :
       table[name] = Trimmed(FieldText(rows[Last(RowsFor(rows, name))].caption))

C7_CaptionsTable ==
  Ended("read_captions") =>
    IF call.arg.is_dir
    THEN raised /\ ret = <<>>
    ELSE /\ ~raised
         /\ IF call.arg.exists THEN TableOfRows(ret[1], call.arg.rows)
            ELSE ret[1] = <<>>

C7_Witness ==
  /\ Returned("read_captions")
  /\ call.arg.exists
  /\ Len(call.arg.rows) = 2
  /\ call.arg.rows[1].filename = call.arg.rows[2].filename
  /\ call.arg.rows[1].caption = Some(<<"h", "i", " ">>)
  /\ call.arg.rows[2].caption = None
  /\ A_PNG \in DOMAIN ret[1]
  /\ ret[1][A_PNG] = <<>>

(***************************************************************************)
(* C8.  For a folder with N >= 1 image files the report has exactly N      *)
(* cards, in ascending filename order, and gives N as the image count;     *)
(* the caption of a card is the caption table's value for that exact,      *)
(* case-sensitive filename, and empty when the table has no such key.      *)
(* (No report is written when captions.csv or report.html is a directory:  *)
(* build_report raises.)                                                   *)
(***************************************************************************)
ImageNames(children) == {e.name : e \in {c \in children : c.is_file /\ IsImageName(c.name)}}

\* The caption the rows of csv give the file called name, letter case included.
CaptionFor(csv, name) ==
  IF csv.exists /\ RowsFor(csv.rows, name) # {}
  THEN Trimmed(FieldText(csv.rows[Last(RowsFor(csv.rows, name))].caption))
  ELSE <<>>

C8_ReportCards ==
  Ended("build_report") =>
    LET names == ImageNames(call.arg.children)
        N     == Cardinality(names)
        isdir == \/ call.arg.csv.is_dir
                 \/ \E c \in call.arg.children : c.name = REPORT_HTML /\ ~c.is_file
    IN  IF N = 0 THEN ~raised /\ ret[1] = <<>>
        ELSE IF isdir THEN raised /\ ret = <<>>
        ELSE /\ ~raised
             /\ ret[1] # <<>>
             /\ ret[1][1].count = N
             /\ Len(ret[1][1].cards) = N
             /\ \A i \in 1..N :
                  \E name \in names :
                    /\ Cardinality({m \in names : StrLess(m, name)}) = i - 1
                    /\ ret[1][1].cards[i].alt = html_escape(name)
                    /\ ret[1][1].cards[i].href = quote(name)
                    /\ ret[1][1].cards[i].caption
                         = html_escape(CaptionFor(call.arg.csv, name))

C8_Witness ==
  /\ Returned("build_report")
  /\ ImageNames(call.arg.children) = {A_PNG, A_PNG_UPPER, BC_JPG}
  /\ call.arg.csv.exists
  /\ call.arg.csv.rows = << [filename |-> Some(A_PNG_UPPER), caption |-> Some(<<"<", "b", ">">>)] >>
  /\ ret[1][1].cards[1].alt = A_PNG_UPPER
  /\ ret[1][1].cards[1].caption = html_escape(<<"<", "b", ">">>)
  /\ ret[1][1].cards[2].alt = A_PNG
  /\ ret[1][1].cards[2].caption = <<>>

(***************************************************************************)
(* C10.  url_path percent-encodes each segment on its own and joins the    *)
(* segments with "/".  As claimed: every "/" of the result is a separator  *)
(* of the join, a "/" inside a segment being percent-encoded, so that the  *)
(* result has segments - 1 of them.                                        *)
(***************************************************************************)
C10_SlashOnlyBetweenSegments ==
  (Returned("url_path") /\ Len(call.arg) >= 1) =>
    CountChar(ret[1], "/") = Len(call.arg) - 1

HexValue(c) == (CHOOSE i \in 1..Len(HexDigits) : HexDigits[i] = c) - 1

\* The text a percent-encoded url stands for.
RECURSIVE Unquote(_)
Unquote(u) ==
  IF u = <<>> THEN <<>>
  ELSE IF Head(u) = "%"
       THEN LET code == 16 * HexValue(u[2]) + HexValue(u[3])
            IN  <<IF code = 9 THEN TAB ELSE Chr(code)>> \o Unquote(SubSeq(u, 4, Len(u)))
       ELSE <<Head(u)>> \o Unquote(Tail(u))

RECURSIVE SumSlashes(_)
SumSlashes(parts) ==
  IF parts = <<>> THEN 0 ELSE CountChar(Head(parts), "/") + SumSlashes(Tail(parts))

Unreserved(c) ==
  \/ c \in {"_", ".", "-", "~"}
  \/ \E i \in 1..Len(AsciiTable) :
       /\ AsciiTable[i] = c
       /\ (i + 31 \in 48..57 \/ i + 31 \in 65..90 \/ i + 31 \in 97..122)

(***************************************************************************)
(* C10, amended.  url_path percent-encodes, in each segment, every         *)
(* character other than letters, digits, "_", ".", "-", "~" and "/", and   *)
(* joins the segments with "/": a space or "&" is encoded, a "/" inside a  *)
(* segment is kept, and the result has one "/" per join plus one per "/"   *)
(* of the segments.                                                        *)
(***************************************************************************)
C10_SlashKept ==
  Returned("url_path") =>
    /\ \A i \in 1..Len(ret[1]) : Unreserved(ret[1][i]) \/ ret[1][i] \in {"/", "%"}
    /\ Unquote(ret[1]) = Join(<<"/">>, call.arg)
    /\ Len(call.arg) >= 1 =>
         CountChar(ret[1], "/") = (Len(call.arg) - 1) + SumSlashes(call.arg)

C10_Witness ==
  /\ Returned("url_path")
  /\ call.arg = << SITE_PREFIX, <<"a", " ", "b">>, <<"r", "&", "d">> >>
  /\ CountChar(ret[1], "/") = 3

=============================================================================
